---- MODULE Spec2Model ----
(***************************************************************************)
(* Model of the gitea-check-service status relay (src/main.go).            *)
(*                                                                         *)
(* Go strings are TLA+ strings; fmt.Sprintf is string concatenation with   *)
(* %d rendered by Itoa.  The display symbols are non-ASCII runes in the    *)
(* source; here each is written as its Unicode code point:                 *)
(*   "U+2713" check mark, "U+2717" ballot x, "U+25CF" black circle,        *)
(*   "U+26A0" warning sign, "U+25CB" white circle.                         *)
(***************************************************************************)
EXTENDS Integers, Sequences, FiniteSets, TLC

\* Number of /status or /health requests that may be in flight at once.
MaxInFlight == 1

Reqs == 1..MaxInFlight

(***************************************************************************)
(* Strings                                                                 *)
(***************************************************************************)

\* strings.Contains
Contains(s, sub) ==
    \E str \in {s} :
        \E i \in 1..(Len(str) - Len(sub) + 1) : SubSeq(str, i, i + Len(sub) - 1) = sub

\* strings.HasPrefix
HasPrefix(s, p) ==
    /\ Len(p) <= Len(s)
    /\ SubSeq(s, 1, Len(p)) = p

\* the %d verb of fmt for a non-negative int
RECURSIVE Itoa(_)
Itoa(n) ==
    IF n < 10 THEN SubSeq("0123456789", n + 1, n + 1)
    ELSE Itoa(n \div 10) \o SubSeq("0123456789", (n % 10) + 1, (n % 10) + 1)

(***************************************************************************)
(* net/http status constants used by the program                           *)
(***************************************************************************)
StatusOK == 200
StatusAccepted == 202
StatusNoContent == 204
StatusBadRequest == 400
StatusNotFound == 404
StatusMethodNotAllowed == 405
StatusExpectationFailed == 417
StatusInternalServerError == 500

(***************************************************************************)
(* State mapper                                                            *)
(***************************************************************************)
symbolMap ==
    ("success" :> "U+2713") @@ ("failure" :> "U+2717") @@
    ("error" :> "U+2717") @@ ("pending" :> "U+25CF") @@
    ("warning" :> "U+26A0") @@ ("unknown" :> "U+25CB")

\* mutant: the default symbol is forgotten (the map's zero value is returned)
mapStateToSymbol_NoDefault(state) ==
    IF state \in DOMAIN symbolMap THEN symbolMap[state] ELSE ""

mapStateToSymbol(state) ==
    IF state \in DOMAIN symbolMap THEN symbolMap[state] ELSE "?"

codeMap ==
    ("success" :> StatusOK) @@ ("failure" :> StatusExpectationFailed) @@
    ("error" :> StatusInternalServerError) @@ ("pending" :> StatusAccepted) @@
    ("warning" :> StatusOK) @@ ("unknown" :> StatusNoContent)

\* mutant: an unrecognized state is answered "not found"
mapStateToHTTPCode_DefaultNotFound(state) ==
    IF state \in DOMAIN codeMap THEN codeMap[state] ELSE StatusNotFound

\* mutant: a warning is answered like a pending build
mapStateToHTTPCode_WarningAccepted(state) ==
    IF state = "warning" THEN StatusAccepted
    ELSE IF state \in DOMAIN codeMap THEN codeMap[state] ELSE StatusOK

mapStateToHTTPCode(state) ==
    IF state \in DOMAIN codeMap THEN codeMap[state] ELSE StatusOK

(***************************************************************************)
(* Go values                                                               *)
(***************************************************************************)

\* the nil error
NilErr == [nil |-> TRUE, msg |-> ""]

\* a non-nil error whose Error() is msg
Error(msg) == [nil |-> FALSE, msg |-> msg]

\* JSON values of an upstream body
JString(s) == [t |-> "string", s |-> s, n |-> 0]
JNumber(n) == [t |-> "number", s |-> "", n |-> n]
\* an array of n opaque elements
JArray(n) == [t |-> "array", s |-> "", n |-> n]

\* An upstream body: its text, the syntax error a JSON decoder meets in it
\* ("" when the text is well-formed) and the members of its top-level object.
Body(text, syntaxErr, obj) == [text |-> text, syntaxErr |-> syntaxErr, obj |-> obj]

NoMembers == [k \in {} |-> JNumber(0)]

(***************************************************************************)
(* Inputs: what the inbound caller and the upstream server may send        *)
(***************************************************************************)
Methods == {"GET", "POST"}
Owners == {"", "acme"}
Repos == {"", "widget"}

\* Response writers a handler may be given: the net/http server's (main),
\* httptest.ResponseRecorder and FailingResponseWriter (main_test.go).
WriterKinds == {"server", "recorder", "failing"}

\* Configurations the process may start with (both variables are required
\* non-empty by init; a base URL holding a control character is one that
\* http.NewRequest rejects).
BaseURLs == {"https://git.example.com", "ht\ttp://invalid-url"}
Tokens == {"test-token", "s3cr3t"}

\* Upstream status codes.
UpstreamCodes == {200, 201, 204, 301, 401, 404, 500}

\* Failures the transport may report.
TransportErrors == {"network error"}

\* Values of "state" the upstream may report.
UpstreamStates ==
    {"success", "failure", "error", "pending", "warning", "unknown",
     "", "invalid", "Success", "SUCCESS"}

RepoBodies ==
    { Body("{\"default_branch\": \"main\"}", "",
           "default_branch" :> JString("main")),
      Body("{\"default_branch\": \"develop\", \"name\": \"widget\"}", "",
           ("default_branch" :> JString("develop")) @@ ("name" :> JString("widget"))),
      Body("{\"name\": \"widget\"}", "", "name" :> JString("widget")),
      Body("{\"default_branch\": \"ma\\tin\"}", "",
           "default_branch" :> JString("ma\tin")),
      Body("{\"default_branch\": 7}", "", "default_branch" :> JNumber(7)),
      Body("{\"default_branch\": \"main\"", "unexpected EOF", NoMembers),
      Body("{\"message\": \"Repository not found\"}", "",
           "message" :> JString("Repository not found")) }

StatusBodies ==
    { Body("{\"state\": \"" \o s \o "\", \"statuses\": [], \"total_count\": 1}", "",
           ("state" :> JString(s)) @@ ("statuses" :> JArray(0)) @@
           ("total_count" :> JNumber(1))) : s \in UpstreamStates }
    \cup
    { Body("{\"state\": \"success\"}", "", "state" :> JString("success")),
      Body("{\"state\": \"pending\", \"statuses\": [{}], \"total_count\": 2}", "",
           ("state" :> JString("pending")) @@ ("statuses" :> JArray(1)) @@
           ("total_count" :> JNumber(2))),
      Body("{\"total_count\": \"many\"}", "", "total_count" :> JString("many")),
      Body("{", "unexpected EOF", NoMembers),
      Body("{\"message\": \"Internal Server Error\"}", "",
           "message" :> JString("Internal Server Error")) }

\* Bodies sent with a status other than 200.
RepoErrorBodies ==
    { b \in RepoBodies : b.text \in { "{\"message\": \"Repository not found\"}",
                                      "{\"default_branch\": \"main\"}" } }

StatusErrorBodies ==
    { b \in StatusBodies : b.text \in { "{\"message\": \"Internal Server Error\"}",
                                        "{\"state\": \"success\"}" } }

\* An http.Response as the client sees it.
Response(code, body, closeFails) ==
    [StatusCode |-> code, Body |-> body, closeFails |-> closeFails]

\* What HTTPClient.Do returns: (resp, nil) or (nil, err).
DoOK(resp) == [err |-> NilErr, resp |-> <<resp>>]
DoFail(msg) == [err |-> Error(msg), resp |-> <<>>]

\* The body of the tests' FailingReadCloser: it reads as "{" and its Close
\* returns an error.
FailingBody == Body("{", "unexpected EOF", NoMembers)

\* Of the bodies sent with an error status, those that are the endpoint's
\* payload and those that are the upstream's error message.
Payloads(errBodies) == { b \in errBodies : "message" \notin DOMAIN b.obj }
Messages(errBodies) == { b \in errBodies : "message" \in DOMAIN b.obj }

\* What the transport may answer: a 200 with any of the bodies; every other
\* status with the endpoint's payload, and errCode with the upstream's error
\* message; a body whose Close fails (the tests' unreadable one with a 200,
\* a 404 or a 500; a readable payload with a 200); or a failure.
DoOutcomes(bodies, errBodies, errCode) ==
    { DoOK(Response(StatusOK, b, FALSE)) : b \in bodies }
    \cup { DoOK(Response(c, b, FALSE)) :
               c \in UpstreamCodes \ {StatusOK}, b \in Payloads(errBodies) }
    \cup { DoOK(Response(errCode, b, FALSE)) : b \in Messages(errBodies) }
    \cup { DoOK(Response(c, FailingBody, TRUE)) :
               c \in {StatusOK, StatusNotFound, StatusInternalServerError} }
    \cup { DoOK(Response(StatusOK, b, TRUE)) : b \in Payloads(errBodies) }
    \cup { DoFail(m) : m \in TransportErrors }

(***************************************************************************)
(* encoding/json decoding of an upstream body into the program's structs   *)
(***************************************************************************)

\* the error of a member whose JSON type does not fit the struct field
UnmarshalTypeError(jv, field, goType) ==
    Error("json: cannot unmarshal " \o jv.t \o " into Go struct field "
          \o field \o " of type " \o goType)

\* type Repository struct { DefaultBranch string `json:"default_branch"` }
Repository(branch) == [DefaultBranch |-> branch]

\* mutant: the decoder's error is dropped, the zero value is kept
DecodeRepository_ErrIgnored(body) ==
    IF body.syntaxErr # "" \/ "default_branch" \notin DOMAIN body.obj
    THEN [err |-> NilErr, v |-> Repository("")]
    ELSE IF body.obj["default_branch"].t # "string"
    THEN [err |-> NilErr, v |-> Repository("")]
    ELSE [err |-> NilErr, v |-> Repository(body.obj["default_branch"].s)]

\* json.NewDecoder(body).Decode(&repository) for a zero-valued Repository
DecodeRepository(body) ==
    IF body.syntaxErr # ""
    THEN [err |-> Error(body.syntaxErr), v |-> Repository("")]
    ELSE IF "default_branch" \notin DOMAIN body.obj
    THEN [err |-> NilErr, v |-> Repository("")]
    ELSE IF body.obj["default_branch"].t # "string"
    THEN [err |-> UnmarshalTypeError(body.obj["default_branch"],
                                     "Repository.default_branch", "string"),
          v |-> Repository("")]
    ELSE [err |-> NilErr, v |-> Repository(body.obj["default_branch"].s)]

\* type StatusResponse struct { State; Statuses; TotalCount }
StatusResponse(state, statuses, total) ==
    [State |-> state, Statuses |-> statuses, TotalCount |-> total]

\* mutant: state, statuses and total_count are required members
DecodeStatusResponse_Required(body) ==
    LET o == body.obj
        has(k) == k \in DOMAIN o
        state == IF has("state") /\ o["state"].t = "string" THEN o["state"].s ELSE ""
        statuses == IF has("statuses") /\ o["statuses"].t = "array"
                    THEN [i \in 1..o["statuses"].n |-> "status"] ELSE <<>>
        total == IF has("total_count") /\ o["total_count"].t = "number"
                 THEN o["total_count"].n ELSE 0
    IN  IF body.syntaxErr # ""
        THEN [err |-> Error(body.syntaxErr), v |-> StatusResponse("", <<>>, 0)]
        ELSE IF \E k \in {"state", "statuses", "total_count"} : ~has(k)
        THEN [err |-> Error("missing required field"), v |-> StatusResponse("", <<>>, 0)]
        ELSE IF    o["state"].t # "string" \/ o["statuses"].t # "array"
                \/ o["total_count"].t # "number"
        THEN [err |-> Error("json: cannot unmarshal"), v |-> StatusResponse("", <<>>, 0)]
        ELSE [err |-> NilErr, v |-> StatusResponse(state, statuses, total)]

\* json.NewDecoder(body).Decode(&status) for a zero-valued StatusResponse
DecodeStatusResponse(body) ==
    LET o == body.obj
        has(k) == k \in DOMAIN o
        bad(k, t) == has(k) /\ o[k].t # t
        state == IF has("state") /\ ~bad("state", "string") THEN o["state"].s ELSE ""
        statuses == IF has("statuses") /\ ~bad("statuses", "array")
                    THEN [i \in 1..o["statuses"].n |-> "status"] ELSE <<>>
        total == IF has("total_count") /\ ~bad("total_count", "number")
                 THEN o["total_count"].n ELSE 0
        v == StatusResponse(state, statuses, total)
    IN  IF body.syntaxErr # ""
        THEN [err |-> Error(body.syntaxErr), v |-> StatusResponse("", <<>>, 0)]
        ELSE IF bad("state", "string")
        THEN [err |-> UnmarshalTypeError(o["state"], "StatusResponse.state", "string"),
              v |-> v]
        ELSE IF bad("statuses", "array")
        THEN [err |-> UnmarshalTypeError(o["statuses"], "StatusResponse.statuses",
                                         "[]interface {}"), v |-> v]
        ELSE IF bad("total_count", "number")
        THEN [err |-> UnmarshalTypeError(o["total_count"], "StatusResponse.total_count",
                                         "int"), v |-> v]
        ELSE [err |-> NilErr, v |-> v]

(***************************************************************************)
(* Upstream client                                                         *)
(***************************************************************************)

\* type GiteaService struct (HTTPClient is the environment, see DoOutcomes)
GiteaService(baseURL, tok) == [BaseURL |-> baseURL, Token |-> tok]

\* mutant: any string is accepted as a URL
NewRequest_Lenient(method, url) ==
    [err |-> NilErr,
     req |-> <<[Method |-> method, URL |-> url, Authorization |-> ""]>>]

\* http.NewRequest(method, url, nil): fails when the URL does not parse
\* (a control character in it), otherwise the request with no headers.
NewRequest(method, url) ==
    IF Contains(url, "\t")
    THEN [err |-> Error("parse \"" \o url \o "\": net/url: invalid control character in URL"),
          req |-> <<>>]
    ELSE [err |-> NilErr,
          req |-> <<[Method |-> method, URL |-> url, Authorization |-> ""]>>]

\* req.Header.Set("Authorization", value)
SetAuthorization(req, value) == [req EXCEPT !.Authorization = value]

\* The result of one upstream-client operation: the values it returns, the
\* requests it handed to the transport, how it read the response body
\* ("none", "ReadAll" or "Decode") and how often it closed it.
CallResult(op, branch, status, err, sent, got, read, closed) ==
    [op |-> op, branch |-> branch, status |-> status, err |-> err,
     sent |-> sent, got |-> got, read |-> read, closed |-> closed]

\* mutant: the token travels in the query string of the URL as well
DefaultBranchRequest_TokenInQuery(g, owner, repo) ==
    LET url == g.BaseURL \o "/api/v1/repos/" \o owner \o "/" \o repo
                   \o "?token=" \o g.Token
        nr == NewRequest("GET", url)
    IN  IF ~nr.err.nil THEN nr
        ELSE [nr EXCEPT !.req = <<SetAuthorization(nr.req[1], "token " \o g.Token)>>]

\* GetDefaultBranch up to the call of HTTPClient.Do: the request it builds
DefaultBranchRequest(g, owner, repo) ==
    LET url == g.BaseURL \o "/api/v1/repos/" \o owner \o "/" \o repo
        nr == NewRequest("GET", url)
    IN  IF ~nr.err.nil THEN nr
        ELSE [nr EXCEPT !.req = <<SetAuthorization(nr.req[1], "token " \o g.Token)>>]

\* mutant: only a status from 300 on counts as a failure
GetDefaultBranch_Accept2xx(g, owner, repo, do) ==
    LET nr == DefaultBranchRequest(g, owner, repo)
        resp == do.resp[1]
        dec == DecodeRepository(resp.Body)
    IN  IF ~nr.err.nil
        THEN CallResult("GetDefaultBranch", "", <<>>, nr.err, <<>>, <<>>, "none", 0)
        ELSE IF ~do.err.nil
        THEN CallResult("GetDefaultBranch", "", <<>>, do.err, nr.req, <<do>>, "none", 0)
        ELSE IF resp.StatusCode >= 300
        THEN CallResult("GetDefaultBranch", "", <<>>,
                 Error("failed to get repository info: " \o Itoa(resp.StatusCode)
                       \o " - " \o resp.Body.text),
                 nr.req, <<do>>, "ReadAll", 1)
        ELSE IF ~dec.err.nil
        THEN CallResult("GetDefaultBranch", "", <<>>, dec.err, nr.req, <<do>>, "Decode", 1)
        ELSE CallResult("GetDefaultBranch", dec.v.DefaultBranch, <<>>, NilErr,
                        nr.req, <<do>>, "Decode", 1)

\* mutant: the transport failure is wrapped in a message of the client
GetDefaultBranch_WrapTransport(g, owner, repo, do) ==
    LET nr == DefaultBranchRequest(g, owner, repo)
        resp == do.resp[1]
        dec == DecodeRepository(resp.Body)
    IN  IF ~nr.err.nil
        THEN CallResult("GetDefaultBranch", "", <<>>, nr.err, <<>>, <<>>, "none", 0)
        ELSE IF ~do.err.nil
        THEN CallResult("GetDefaultBranch", "", <<>>,
                 Error("failed to get repository info: " \o do.err.msg),
                 nr.req, <<do>>, "none", 0)
        ELSE IF resp.StatusCode # StatusOK
        THEN CallResult("GetDefaultBranch", "", <<>>,
                 Error("failed to get repository info: " \o Itoa(resp.StatusCode)
                       \o " - " \o resp.Body.text),
                 nr.req, <<do>>, "ReadAll", 1)
        ELSE IF ~dec.err.nil
        THEN CallResult("GetDefaultBranch", "", <<>>, dec.err, nr.req, <<do>>, "Decode", 1)
        ELSE CallResult("GetDefaultBranch", dec.v.DefaultBranch, <<>>, NilErr,
                        nr.req, <<do>>, "Decode", 1)

\* mutant: a request the transport failed on is sent a second time
GetDefaultBranch_Retry(g, owner, repo, do) ==
    LET nr == DefaultBranchRequest(g, owner, repo)
        resp == do.resp[1]
        dec == DecodeRepository(resp.Body)
    IN  IF ~nr.err.nil
        THEN CallResult("GetDefaultBranch", "", <<>>, nr.err, <<>>, <<>>, "none", 0)
        ELSE IF ~do.err.nil
        THEN CallResult("GetDefaultBranch", "", <<>>, do.err, nr.req \o nr.req,
                        <<do, do>>, "none", 0)
        ELSE IF resp.StatusCode # StatusOK
        THEN CallResult("GetDefaultBranch", "", <<>>,
                 Error("failed to get repository info: " \o Itoa(resp.StatusCode)
                       \o " - " \o resp.Body.text),
                 nr.req, <<do>>, "ReadAll", 1)
        ELSE IF ~dec.err.nil
        THEN CallResult("GetDefaultBranch", "", <<>>, dec.err, nr.req, <<do>>, "Decode", 1)
        ELSE CallResult("GetDefaultBranch", dec.v.DefaultBranch, <<>>, NilErr,
                        nr.req, <<do>>, "Decode", 1)

\* GetDefaultBranch, do being what HTTPClient.Do returns if it is called
GetDefaultBranch(g, owner, repo, do) ==
    LET nr == DefaultBranchRequest(g, owner, repo)
        resp == do.resp[1]
        dec == DecodeRepository(resp.Body)
    IN  IF ~nr.err.nil
        THEN CallResult("GetDefaultBranch", "", <<>>, nr.err, <<>>, <<>>, "none", 0)
        ELSE IF ~do.err.nil
        THEN CallResult("GetDefaultBranch", "", <<>>, do.err, nr.req, <<do>>, "none", 0)
        ELSE IF resp.StatusCode # StatusOK
        THEN CallResult("GetDefaultBranch", "", <<>>,
                 Error("failed to get repository info: " \o Itoa(resp.StatusCode)
                       \o " - " \o resp.Body.text),
                 nr.req, <<do>>, "ReadAll", 1)
        ELSE IF ~dec.err.nil
        THEN CallResult("GetDefaultBranch", "", <<>>, dec.err, nr.req, <<do>>, "Decode", 1)
        ELSE CallResult("GetDefaultBranch", dec.v.DefaultBranch, <<>>, NilErr,
                        nr.req, <<do>>, "Decode", 1)

\* mutant: the commit-status request goes out without the Authorization header
CommitStatusRequest_NoAuthorization(g, owner, repo, branch) ==
    NewRequest("GET", g.BaseURL \o "/api/v1/repos/" \o owner \o "/" \o repo
                          \o "/commits/" \o branch \o "/status")

\* GetCommitStatus up to the call of HTTPClient.Do: the request it builds
CommitStatusRequest(g, owner, repo, branch) ==
    LET url == g.BaseURL \o "/api/v1/repos/" \o owner \o "/" \o repo
                   \o "/commits/" \o branch \o "/status"
        nr == NewRequest("GET", url)
    IN  IF ~nr.err.nil THEN nr
        ELSE [nr EXCEPT !.req = <<SetAuthorization(nr.req[1], "token " \o g.Token)>>]

\* mutant: a 404 is not special-cased
GetCommitStatus_NoNotFound(g, owner, repo, branch, do) ==
    LET nr == CommitStatusRequest(g, owner, repo, branch)
        resp == do.resp[1]
        dec == DecodeStatusResponse(resp.Body)
    IN  IF ~nr.err.nil
        THEN CallResult("GetCommitStatus", "", <<>>, nr.err, <<>>, <<>>, "none", 0)
        ELSE IF ~do.err.nil
        THEN CallResult("GetCommitStatus", "", <<>>, do.err, nr.req, <<do>>, "none", 0)
        ELSE IF resp.StatusCode # StatusOK
        THEN CallResult("GetCommitStatus", "", <<>>,
                 Error("failed to get commit status: " \o Itoa(resp.StatusCode)
                       \o " - " \o resp.Body.text),
                 nr.req, <<do>>, "ReadAll", 1)
        ELSE IF ~dec.err.nil
        THEN CallResult("GetCommitStatus", "", <<>>, dec.err, nr.req, <<do>>, "Decode", 1)
        ELSE CallResult("GetCommitStatus", "", <<dec.v>>, NilErr, nr.req, <<do>>,
                        "Decode", 1)

\* mutant: only a status from 400 on counts as a failure
GetCommitStatus_ErrorsFrom400(g, owner, repo, branch, do) ==
    LET nr == CommitStatusRequest(g, owner, repo, branch)
        resp == do.resp[1]
        dec == DecodeStatusResponse(resp.Body)
    IN  IF ~nr.err.nil
        THEN CallResult("GetCommitStatus", "", <<>>, nr.err, <<>>, <<>>, "none", 0)
        ELSE IF ~do.err.nil
        THEN CallResult("GetCommitStatus", "", <<>>, do.err, nr.req, <<do>>, "none", 0)
        ELSE IF resp.StatusCode = StatusNotFound
        THEN CallResult("GetCommitStatus", "", <<StatusResponse("unknown", <<>>, 0)>>,
                        NilErr, nr.req, <<do>>, "none", 1)
        ELSE IF resp.StatusCode >= 400
        THEN CallResult("GetCommitStatus", "", <<>>,
                 Error("failed to get commit status: " \o Itoa(resp.StatusCode)
                       \o " - " \o resp.Body.text),
                 nr.req, <<do>>, "ReadAll", 1)
        ELSE IF ~dec.err.nil
        THEN CallResult("GetCommitStatus", "", <<>>, dec.err, nr.req, <<do>>, "Decode", 1)
        ELSE CallResult("GetCommitStatus", "", <<dec.v>>, NilErr, nr.req, <<do>>,
                        "Decode", 1)

\* mutant: the 404 branch returns without the body having been closed
GetCommitStatus_NoCloseOn404(g, owner, repo, branch, do) ==
    LET nr == CommitStatusRequest(g, owner, repo, branch)
        resp == do.resp[1]
        dec == DecodeStatusResponse(resp.Body)
    IN  IF ~nr.err.nil
        THEN CallResult("GetCommitStatus", "", <<>>, nr.err, <<>>, <<>>, "none", 0)
        ELSE IF ~do.err.nil
        THEN CallResult("GetCommitStatus", "", <<>>, do.err, nr.req, <<do>>, "none", 0)
        ELSE IF resp.StatusCode = StatusNotFound
        THEN CallResult("GetCommitStatus", "", <<StatusResponse("unknown", <<>>, 0)>>,
                        NilErr, nr.req, <<do>>, "none", 0)
        ELSE IF resp.StatusCode # StatusOK
        THEN CallResult("GetCommitStatus", "", <<>>,
                 Error("failed to get commit status: " \o Itoa(resp.StatusCode)
                       \o " - " \o resp.Body.text),
                 nr.req, <<do>>, "ReadAll", 1)
        ELSE IF ~dec.err.nil
        THEN CallResult("GetCommitStatus", "", <<>>, dec.err, nr.req, <<do>>, "Decode", 1)
        ELSE CallResult("GetCommitStatus", "", <<dec.v>>, NilErr, nr.req, <<do>>,
                        "Decode", 1)

\* GetCommitStatus, do being what HTTPClient.Do returns if it is called;
\* status is <<>> for a nil *StatusResponse
GetCommitStatus(g, owner, repo, branch, do) ==
    LET nr == CommitStatusRequest(g, owner, repo, branch)
        resp == do.resp[1]
        dec == DecodeStatusResponse(resp.Body)
    IN  IF ~nr.err.nil
        THEN CallResult("GetCommitStatus", "", <<>>, nr.err, <<>>, <<>>, "none", 0)
        ELSE IF ~do.err.nil
        THEN CallResult("GetCommitStatus", "", <<>>, do.err, nr.req, <<do>>, "none", 0)
        ELSE IF resp.StatusCode = StatusNotFound
        THEN CallResult("GetCommitStatus", "", <<StatusResponse("unknown", <<>>, 0)>>,
                        NilErr, nr.req, <<do>>, "none", 1)
        ELSE IF resp.StatusCode # StatusOK
        THEN CallResult("GetCommitStatus", "", <<>>,
                 Error("failed to get commit status: " \o Itoa(resp.StatusCode)
                       \o " - " \o resp.Body.text),
                 nr.req, <<do>>, "ReadAll", 1)
        ELSE IF ~dec.err.nil
        THEN CallResult("GetCommitStatus", "", <<>>, dec.err, nr.req, <<do>>, "Decode", 1)
        ELSE CallResult("GetCommitStatus", "", <<dec.v>>, NilErr, nr.req, <<do>>,
                        "Decode", 1)

(***************************************************************************)
(* http.ResponseWriter                                                     *)
(***************************************************************************)
NoHeader == [k \in {} |-> ""]

\* A writer nothing was done to yet.  code 0: WriteHeader not called yet;
\* sent: the header map as it was when the status line went out; written:
\* the chunks the handler passed to Write; body: the chunks that reached the
\* caller; writeErr: some Write returned an error; superfluous: the calls of
\* WriteHeader made after the status had gone out.
NewWriter(kind) ==
    [kind |-> kind, header |-> NoHeader, code |-> 0, sent |-> NoHeader,
     written |-> <<>>, body |-> <<>>, writeErr |-> FALSE, superfluous |-> 0]

\* w.Header().Set(key, value)
HeaderSet(w, key, value) == [w EXCEPT !.header = (key :> value) @@ w.header]

\* w.WriteHeader(code); a second call is superfluous and changes nothing
\* the caller sees
WriteHeader(w, code) ==
    IF w.code # 0 THEN [w EXCEPT !.superfluous = @ + 1]
    ELSE [w EXCEPT !.code = code, !.sent = w.header]

\* net/http bodyAllowedForStatus
bodyAllowedForStatus(status) ==
    ~ \/ (status >= 100 /\ status <= 199)
      \/ status = 204
      \/ status = 304

\* w.Write(chunk).  FailingResponseWriter returns an error and passes nothing
\* on; the recorder stores every chunk; the server's writer sends the status
\* line if needed and refuses a body (http.ErrBodyNotAllowed) for a status
\* that allows none.
Write(w, chunk) ==
    LET w0 == [w EXCEPT !.written = Append(@, chunk)]
        w1 == IF w0.code = 0 THEN WriteHeader(w0, StatusOK) ELSE w0
    IN  CASE w.kind = "failing" -> [w0 EXCEPT !.writeErr = TRUE]
          [] w.kind = "recorder" -> [w1 EXCEPT !.body = Append(@, chunk)]
          [] w.kind = "server" ->
                IF bodyAllowedForStatus(w1.code)
                THEN [w1 EXCEPT !.body = Append(@, chunk)]
                ELSE [w1 EXCEPT !.writeErr = TRUE]

\* a chunk of JSON (the members of the encoded object) or of plain text
JSONChunk(members) == [json |-> members, text |-> ""]
TextChunk(text) == [json |-> NoHeader, text |-> text]

\* what the caller gets once the handler has returned: a handler that never
\* wrote a status answers 200
Flush(w) == IF w.code = 0 THEN WriteHeader(w, StatusOK) ELSE w

\* http.Error(w, msg, code)
HttpError(w, msg, code) ==
    Write(WriteHeader(HeaderSet(HeaderSet(w, "Content-Type", "text/plain; charset=utf-8"),
                                "X-Content-Type-Options", "nosniff"), code),
          TextChunk(msg \o "\n"))

(***************************************************************************)
(* Status orchestrator                                                     *)
(***************************************************************************)

\* type BuildStatusResponse struct
BuildStatusResponse(owner, repo, branch, state, symbol, error) ==
    [Owner |-> owner, Repository |-> repo, Branch |-> branch, State |-> state,
     Symbol |-> symbol, Error |-> error]

\* mutant: the error member is encoded without omitempty
MarshalBuildStatusResponse_NoOmitEmpty(v) ==
    ("owner" :> v.Owner) @@ ("repository" :> v.Repository) @@
    ("branch" :> v.Branch) @@ ("state" :> v.State) @@
    ("symbol" :> v.Symbol) @@ ("error" :> v.Error)

\* json.Marshal of a BuildStatusResponse: Error is `json:"error,omitempty"`
MarshalBuildStatusResponse(v) ==
    LET always == ("owner" :> v.Owner) @@ ("repository" :> v.Repository) @@
                  ("branch" :> v.Branch) @@ ("state" :> v.State) @@
                  ("symbol" :> v.Symbol)
    IN  IF v.Error = "" THEN always ELSE ("error" :> v.Error) @@ always

\* mutant: the content type is set after the status was written
respond_HeaderAfterStatus(w, code, response) ==
    Write(HeaderSet(WriteHeader(w, code), "Content-Type", "application/json"),
          JSONChunk(MarshalBuildStatusResponse(response)))

\* the four lines every JSON branch of statusHandler ends with: set the
\* content type, write the status, encode the response (an encode error is
\* only logged)
respond(w, code, response) ==
    Write(WriteHeader(HeaderSet(w, "Content-Type", "application/json"), code),
          JSONChunk(MarshalBuildStatusResponse(response)))

\* statusHandler: request rejected because of its method
respondMethodNotAllowed(w) ==
    HttpError(w, "Method not allowed", StatusMethodNotAllowed)

\* mutant: the validation failure is answered in plain text, as the 405 is
respondBadRequest_PlainText(w) ==
    HttpError(w, "Both 'owner' and 'repo' query parameters are required",
              StatusBadRequest)

\* statusHandler: owner == "" || repo == ""
respondBadRequest(w) ==
    respond(w, StatusBadRequest,
            BuildStatusResponse("", "", "", "", "",
                "Both 'owner' and 'repo' query parameters are required"))

\* mutant: the status of the validation branch is reused
respondRepoInfoError_BadRequest(w, owner, repo, err) ==
    respond(w, StatusBadRequest,
            BuildStatusResponse(owner, repo, "", "", "",
                "Failed to get repository info: " \o err.msg))

\* statusHandler: getDefaultBranch returned err
respondRepoInfoError(w, owner, repo, err) ==
    respond(w, StatusInternalServerError,
            BuildStatusResponse(owner, repo, "", "", "",
                "Failed to get repository info: " \o err.msg))

\* mutant: the response of the repository-info branch is reused, without Branch
respondCommitStatusError_NoBranch(w, owner, repo, branch, err) ==
    respond(w, StatusInternalServerError,
            BuildStatusResponse(owner, repo, "", "", "",
                "Failed to get commit status: " \o err.msg))

\* mutant: the error response carries the symbol of the state "error"
respondCommitStatusError_WithSymbol(w, owner, repo, branch, err) ==
    respond(w, StatusInternalServerError,
            BuildStatusResponse(owner, repo, branch, "", mapStateToSymbol("error"),
                "Failed to get commit status: " \o err.msg))

\* statusHandler: getCommitStatus returned err
respondCommitStatusError(w, owner, repo, branch, err) ==
    respond(w, StatusInternalServerError,
            BuildStatusResponse(owner, repo, branch, "", "",
                "Failed to get commit status: " \o err.msg))

\* mutant: a state the mapper does not know is reported as "unknown"
respondStatus_Normalised(w, owner, repo, branch, status) ==
    LET state == IF status.State \in DOMAIN codeMap THEN status.State ELSE "unknown"
    IN  respond(w, mapStateToHTTPCode(state),
                BuildStatusResponse(owner, repo, branch, state,
                                    mapStateToSymbol(state), ""))

\* statusHandler: both lookups succeeded
respondStatus(w, owner, repo, branch, status) ==
    respond(w, mapStateToHTTPCode(status.State),
            BuildStatusResponse(owner, repo, branch, status.State,
                                mapStateToSymbol(status.State), ""))

\* mutant: the body is written without the Content-Type having been set
respondHealth_NoContentType(w) == Write(w, JSONChunk("status" :> "ok"))

\* healthHandler
respondHealth(w) ==
    Write(HeaderSet(w, "Content-Type", "application/json"),
          JSONChunk("status" :> "ok"))

(***************************************************************************)
(* State                                                                   *)
(***************************************************************************)
VARIABLES
    service,   \* the package-level *GiteaService set by init
    pc,        \* per request slot: "idle", or the upstream call it waits in
    req,       \* per slot: the inbound request being handled
    w,         \* per slot: the request's http.ResponseWriter
    branch,    \* per slot: statusHandler's local variable branch
    calls,     \* per slot: results of the upstream-client calls that returned
    pending,   \* per slot: the request the transport is working on, if any
    last       \* the exchange the latest step completed, as its caller saw it

vars == <<service, pc, req, w, branch, calls, pending, last>>

Request(path, method, owner, repo) ==
    [path |-> path, method |-> method, owner |-> owner, repo |-> repo]

NoRequest == Request("", "", "", "")

\* a completed exchange: the request, the response as flushed to the caller,
\* the handler's branch and the upstream-client calls it made
Exchange(rq, wr, br, cs) ==
    [served |-> TRUE, req |-> rq, w |-> Flush(wr), branch |-> br, calls |-> cs]

\* the latest step completed no exchange
NoExchange ==
    [served |-> FALSE, req |-> NoRequest, w |-> NewWriter("server"),
     branch |-> "", calls |-> <<>>]

Init ==
    /\ service \in { GiteaService(u, t) : u \in BaseURLs, t \in Tokens }
    /\ pc = [r \in Reqs |-> "idle"]
    /\ req = [r \in Reqs |-> NoRequest]
    /\ w = [r \in Reqs |-> NewWriter("server")]
    /\ branch = [r \in Reqs |-> ""]
    /\ calls = [r \in Reqs |-> <<>>]
    /\ pending = [r \in Reqs |-> <<>>]
    /\ last = NoExchange

\* the handler of slot r returns: its caller has the response, the slot is free
Return(r, rq, wr, br, cs) ==
    /\ last' = Exchange(rq, wr, br, cs)
    /\ pc' = [pc EXCEPT ![r] = "idle"]
    /\ req' = [req EXCEPT ![r] = NoRequest]
    /\ w' = [w EXCEPT ![r] = NewWriter("server")]
    /\ branch' = [branch EXCEPT ![r] = ""]
    /\ calls' = [calls EXCEPT ![r] = <<>>]
    /\ pending' = [pending EXCEPT ![r] = <<>>]
    /\ UNCHANGED service

\* the handler of slot r blocks in HTTPClient.Do(out)
Block(r, at, rq, wr, br, cs, out) ==
    /\ pc' = [pc EXCEPT ![r] = at]
    /\ req' = [req EXCEPT ![r] = rq]
    /\ w' = [w EXCEPT ![r] = wr]
    /\ branch' = [branch EXCEPT ![r] = br]
    /\ calls' = [calls EXCEPT ![r] = cs]
    /\ pending' = [pending EXCEPT ![r] = <<out>>]
    /\ last' = NoExchange
    /\ UNCHANGED service

\* mutant: after a commit-status lookup that failed the handler starts over
\* with the repository-info lookup
StatusAfterBranch_StartOver(r, rq, wr, br, cs, do) ==
    \E res \in {GetCommitStatus(service, rq.owner, rq.repo, br, do)} :
        IF ~res.err.nil /\ res.sent # <<>>
        THEN Block(r, "GetDefaultBranch", rq, wr, "", <<>>,
                   DefaultBranchRequest(service, rq.owner, rq.repo).req[1])
        ELSE IF ~res.err.nil
        THEN Return(r, rq, respondCommitStatusError(wr, rq.owner, rq.repo, br, res.err),
                    br, Append(cs, res))
        ELSE Return(r, rq, respondStatus(wr, rq.owner, rq.repo, br, res.status[1]),
                    br, Append(cs, res))

\* statusHandler from getCommitStatus(owner, repo, branch) on, do being what
\* the transport answers if it is asked
StatusAfterBranch(r, rq, wr, br, cs, do) ==
    \E res \in {GetCommitStatus(service, rq.owner, rq.repo, br, do)} :
        IF ~res.err.nil
        THEN Return(r, rq, respondCommitStatusError(wr, rq.owner, rq.repo, br, res.err),
                    br, Append(cs, res))
        ELSE Return(r, rq, respondStatus(wr, rq.owner, rq.repo, br, res.status[1]),
                    br, Append(cs, res))

\* mutant: the status of branch "main" is asked for, whatever was resolved
StatusAfterRepo_MainBranch(r, rq, wr, res) ==
    IF ~res.err.nil
    THEN Return(r, rq, respondRepoInfoError(wr, rq.owner, rq.repo, res.err), "", <<res>>)
    ELSE LET nr == CommitStatusRequest(service, rq.owner, rq.repo, "main")
         IN  IF ~nr.err.nil
             THEN StatusAfterBranch(r, rq, wr, "main", <<res>>, DoFail(""))
             ELSE Block(r, "GetCommitStatus", rq, wr, "main", <<res>>, nr.req[1])

\* statusHandler from the return of getDefaultBranch(owner, repo) up to the
\* point where getCommitStatus blocks in the transport, or to the end
StatusAfterRepo(r, rq, wr, res) ==
    IF ~res.err.nil
    THEN Return(r, rq, respondRepoInfoError(wr, rq.owner, rq.repo, res.err), "", <<res>>)
    ELSE LET nr == CommitStatusRequest(service, rq.owner, rq.repo, res.branch)
         IN  IF ~nr.err.nil
             THEN StatusAfterBranch(r, rq, wr, res.branch, <<res>>, DoFail(""))
             ELSE Block(r, "GetCommitStatus", rq, wr, res.branch, <<res>>, nr.req[1])

\* mutant: the parameters are rejected only when both are missing
admit_BothMissing(method, owner, repo) ==
    IF method # "GET" THEN "MethodNotAllowed"
    ELSE IF owner = "" /\ repo = "" THEN "BadRequest"
    ELSE "Lookup"

\* mutant: the parameters are validated before the method is looked at
admit_ValidateFirst(method, owner, repo) ==
    IF owner = "" \/ repo = "" THEN "BadRequest"
    ELSE IF method # "GET" THEN "MethodNotAllowed"
    ELSE "Lookup"

\* statusHandler's checks before any lookup: the method, then the parameters
admit(method, owner, repo) ==
    IF method # "GET" THEN "MethodNotAllowed"
    ELSE IF owner = "" \/ repo = "" THEN "BadRequest"
    ELSE "Lookup"

\* A /status request drawn from the given inputs arrives; statusHandler runs
\* until it has answered or blocks in the transport inside getDefaultBranch.
StatusHandlerOn(r, methods, owners, repos, kinds) ==
    /\ pc[r] = "idle"
    /\ \E method \in methods, owner \in owners, repo \in repos, kind \in kinds :
         LET rq == Request("/status", method, owner, repo)
             wr == NewWriter(kind)
             nr == DefaultBranchRequest(service, owner, repo)
             verdict == admit(method, owner, repo)
         IN  IF verdict = "MethodNotAllowed"
             THEN Return(r, rq, respondMethodNotAllowed(wr), "", <<>>)
             ELSE IF verdict = "BadRequest"
             THEN Return(r, rq, respondBadRequest(wr), "", <<>>)
             ELSE IF ~nr.err.nil
             THEN \E res \in {GetDefaultBranch(service, owner, repo, DoFail(""))} :
                     StatusAfterRepo(r, rq, wr, res)
             ELSE Block(r, "GetDefaultBranch", rq, wr, "", <<>>, nr.req[1])

\* The transport answers the repository-info request of slot r with one of
\* the given outcomes.
DefaultBranchReturnsOn(r, outcomes) ==
    /\ pc[r] = "GetDefaultBranch"
    /\ \E do \in outcomes :
         \E res \in {GetDefaultBranch(service, req[r].owner, req[r].repo, do)} :
            StatusAfterRepo(r, req[r], w[r], res)

\* mutant: the branch is a variable all requests share; the commit status is
\* looked up for the branch of the first request that waits for one
CommitStatusReturnsOn_SharedBranch(r, outcomes) ==
    /\ pc[r] = "GetCommitStatus"
    /\ \E do \in outcomes :
         LET first == CHOOSE q \in DOMAIN pc :
                         /\ pc[q] = "GetCommitStatus"
                         /\ \A p \in DOMAIN pc : pc[p] = "GetCommitStatus" => q <= p
         IN  StatusAfterBranch(r, req[r], w[r], branch[first], calls[r], do)

\* The transport answers the commit-status request of slot r with one of the
\* given outcomes.
CommitStatusReturnsOn(r, outcomes) ==
    /\ pc[r] = "GetCommitStatus"
    /\ \E do \in outcomes :
         StatusAfterBranch(r, req[r], w[r], branch[r], calls[r], do)

\* what the transport may answer the repository-info request with
RepoOutcomes == DoOutcomes(RepoBodies, RepoErrorBodies, StatusNotFound)

\* what the transport may answer the commit-status request with
StatusOutcomes == DoOutcomes(StatusBodies, StatusErrorBodies, StatusInternalServerError)

\* A /status request arrives, any the inbound caller may send.
StatusHandler(r) == StatusHandlerOn(r, Methods, Owners, Repos, WriterKinds)

\* The transport answers the repository-info request of slot r.
DefaultBranchReturns(r) == DefaultBranchReturnsOn(r, RepoOutcomes)

\* The transport answers the commit-status request of slot r.
CommitStatusReturns(r) == CommitStatusReturnsOn(r, StatusOutcomes)

\* A /health request arrives and is answered, in a goroutine of its own:
\* healthHandler never blocks, so the request is served in one step whatever
\* the /status requests in flight are waiting for.
HealthHandler ==
    /\ \E method \in Methods, kind \in WriterKinds :
         last' = Exchange(Request("/health", method, "", ""),
                          respondHealth(NewWriter(kind)), "", <<>>)
    /\ UNCHANGED <<service, pc, req, w, branch, calls, pending>>

Next ==
    \/ \E r \in Reqs :
          \/ StatusHandler(r)
          \/ DefaultBranchReturns(r)
          \/ CommitStatusReturns(r)
    \/ HealthHandler

Spec == Init /\ [][Next]_vars

(***************************************************************************)
(* Several /status requests in flight at once, each on its own goroutine,  *)
(* for two owners and with a few of the upstream's answers                 *)
(***************************************************************************)
Concurrent == 1..(MaxInFlight + 1)

ConcurrentOwners == {"acme", "globex"}

\* the upstream answers the repository-info request 200 with main or
\* develop or 401, or the transport fails
FewRepoOutcomes ==
    { do \in RepoOutcomes :
        do.err.nil =>
            /\ ~do.resp[1].closeFails
            /\ do.resp[1].StatusCode \in {200, 401}
            /\ do.resp[1].Body.text \in { "{\"default_branch\": \"main\"}",
                   "{\"default_branch\": \"develop\", \"name\": \"widget\"}" } }

\* the upstream answers the commit-status request 200 with success or
\* failure or 404, or the transport fails
FewStatusOutcomes ==
    { do \in StatusOutcomes :
        do.err.nil =>
            /\ ~do.resp[1].closeFails
            /\ do.resp[1].StatusCode \in {200, 404}
            /\ do.resp[1].Body.text \in
                  { "{\"state\": \"success\", \"statuses\": [], \"total_count\": 1}",
                    "{\"state\": \"failure\", \"statuses\": [], \"total_count\": 1}",
                    "{\"state\": \"success\"}" } }

InitConcurrent ==
    /\ service \in { GiteaService(u, t) : u \in { b \in BaseURLs : ~Contains(b, "\t") },
                                          t \in Tokens }
    /\ pc = [r \in Concurrent |-> "idle"]
    /\ req = [r \in Concurrent |-> NoRequest]
    /\ w = [r \in Concurrent |-> NewWriter("server")]
    /\ branch = [r \in Concurrent |-> ""]
    /\ calls = [r \in Concurrent |-> <<>>]
    /\ pending = [r \in Concurrent |-> <<>>]
    /\ last = NoExchange

ConcurrentStatusHandler(r) ==
    StatusHandlerOn(r, {"GET"}, ConcurrentOwners, {"widget"}, {"server"})

DefaultBranchReturnsFew(r) == DefaultBranchReturnsOn(r, FewRepoOutcomes)

CommitStatusReturnsFew(r) == CommitStatusReturnsOn(r, FewStatusOutcomes)

NextConcurrent ==
    \E r \in Concurrent :
        \/ ConcurrentStatusHandler(r)
        \/ DefaultBranchReturnsFew(r)
        \/ CommitStatusReturnsFew(r)

SpecConcurrent == InitConcurrent /\ [][NextConcurrent]_vars

(***************************************************************************)
(* The transport answers every request handed to it: http.Client's Timeout *)
(* turns a call that would hang into a failure.  Any /status request, a    *)
(* few of the upstream's answers.                                          *)
(***************************************************************************)
NextLive ==
    \E r \in Reqs :
        \/ StatusHandler(r)
        \/ DefaultBranchReturnsFew(r)
        \/ CommitStatusReturnsFew(r)

LiveSpec ==
    /\ Init
    /\ [][NextLive]_vars
    /\ \A r \in Reqs : /\ WF_vars(DefaultBranchReturnsFew(r))
                       /\ WF_vars(CommitStatusReturnsFew(r))

TypeOK ==
    /\ pc \in [Reqs -> {"idle", "GetDefaultBranch", "GetCommitStatus"}]
    /\ \A r \in Reqs : Len(pending[r]) = IF pc[r] = "idle" THEN 0 ELSE 1

(***************************************************************************)
(* Vocabulary of the properties                                            *)
(***************************************************************************)

\* the latest step answered a /status request
StatusServed == last.served /\ last.req.path = "/status"

\* ... whose repository-info lookup returned
RepoLookedUp == StatusServed /\ Len(last.calls) >= 1

\* ... and whose commit-status lookup returned too
StatusLookedUp == StatusServed /\ Len(last.calls) = 2

\* ... both without an error
BothLookupsOK ==
    /\ StatusLookedUp
    /\ last.calls[1].err.nil
    /\ last.calls[2].err.nil

\* the number of requests the exchange handed to the transport
TransportCalls ==
    IF last.calls = <<>> THEN 0
    ELSE IF Len(last.calls) = 1 THEN Len(last.calls[1].sent)
    ELSE Len(last.calls[1].sent) + Len(last.calls[2].sent)

\* the writer met no I/O failure (it is not the tests' failing writer)
WriterWorks == last.w.kind # "failing"

\* a JSON object with the five members every BuildStatusResult has
Object5(owner, repository, br, state, symbol) ==
    [k \in {"owner", "repository", "branch", "state", "symbol"} |->
        CASE k = "owner" -> owner
          [] k = "repository" -> repository
          [] k = "branch" -> br
          [] k = "state" -> state
          [] k = "symbol" -> symbol]

\* the same with an error member
Object6(owner, repository, br, state, symbol, error) ==
    [k \in {"owner", "repository", "branch", "state", "symbol", "error"} |->
        IF k = "error" THEN error ELSE Object5(owner, repository, br, state, symbol)[k]]

\* exactly one JSON chunk, with these members
OneJSON(chunks, members) == chunks = <<[json |-> members, text |-> ""]>>

\* the fixed table of section 4.3, written out
TableSymbol(state) ==
    CASE state = "success" -> "U+2713"
      [] state = "failure" -> "U+2717"
      [] state = "error" -> "U+2717"
      [] state = "pending" -> "U+25CF"
      [] state = "warning" -> "U+26A0"
      [] state = "unknown" -> "U+25CB"
      [] OTHER -> "?"

TableCode(state) ==
    CASE state = "success" -> 200
      [] state = "failure" -> 417
      [] state = "error" -> 500
      [] state = "pending" -> 202
      [] state = "warning" -> 200
      [] state = "unknown" -> 204
      [] OTHER -> 200

\* the decimal text of the upstream status codes
CodeText(code) ==
    CASE code = 200 -> "200" [] code = 201 -> "201" [] code = 204 -> "204"
      [] code = 301 -> "301" [] code = 401 -> "401" [] code = 404 -> "404"
      [] code = 500 -> "500"

ValidationMessage == "Both 'owner' and 'repo' query parameters are required"

(***************************************************************************)
(* Properties                                                              *)
(***************************************************************************)

\* C1: whatever state string the commit-status lookup yields, the symbol and
\* the status code the handler answers with are those of the fixed table:
\* the six named states map to their row, every other string (the empty
\* one, another spelling of a named state) to "?" and 200.
C1_MapperMatchesTable ==
    BothLookupsOK =>
        LET state == last.calls[2].status[1].State
        IN  /\ last.w.code = TableCode(state)
            /\ Len(last.w.written) = 1
            /\ last.w.written[1].json["symbol"] = TableSymbol(state)
            /\ mapStateToSymbol(state) = TableSymbol(state)
            /\ mapStateToHTTPCode(state) = TableCode(state)

\* C1 witness: an upper-case spelling of a named state was answered as an
\* unrecognized one
C1_Witness ==
    /\ BothLookupsOK
    /\ last.calls[2].status[1].State = "SUCCESS"
    /\ last.w.code = 200
    /\ last.w.written[1].json["symbol"] = "?"

\* C2 (as claimed): when both lookups succeed the response has the status
\* code of the state and its body is exactly {owner, repository, branch,
\* state, symbol} with no error member.
C2_SuccessResponse ==
    (BothLookupsOK /\ WriterWorks) =>
        LET state == last.calls[2].status[1].State
        IN  /\ last.w.code = mapStateToHTTPCode(state)
            /\ OneJSON(last.w.body,
                       Object5(last.req.owner, last.req.repo, last.calls[1].branch,
                               state, mapStateToSymbol(state)))

\* C3: a GET /status with owner or repo empty is answered 400 with the fixed
\* message and every other member empty, and nothing is sent upstream.
C3_ValidationError ==
    (StatusServed /\ last.req.method = "GET"
        /\ (last.req.owner = "" \/ last.req.repo = "")) =>
        /\ last.w.code = 400
        /\ OneJSON(last.w.written, Object6("", "", "", "", "", ValidationMessage))
        /\ WriterWorks => last.w.body = last.w.written
        /\ last.calls = <<>>
        /\ TransportCalls = 0

\* C3 witness: owner was supplied, repo was not, and the answer is the 400
C3_Witness ==
    /\ StatusServed
    /\ last.req.method = "GET"
    /\ last.req.owner = "acme"
    /\ last.req.repo = ""
    /\ last.w.code = 400
    /\ last.w.body # <<>>
    /\ last.w.body[1].json["owner"] = ""

\* C4: a /status request with another method than GET is answered 405,
\* also when owner or repo is missing, and nothing is sent upstream.
C4_MethodFirst ==
    (StatusServed /\ last.req.method # "GET") =>
        /\ last.w.code = 405
        /\ last.w.written = <<[json |-> NoHeader, text |-> "Method not allowed\n"]>>
        /\ last.calls = <<>>
        /\ TransportCalls = 0

\* C4 witness: a POST without owner and repo was answered 405
C4_Witness ==
    /\ StatusServed
    /\ last.req.method = "POST"
    /\ last.req.owner = ""
    /\ last.req.repo = ""
    /\ last.w.code = 405

\* the transport answered call c with a response (not a failure)
Answered(c) == c.got # <<>> /\ c.got[1].err.nil

\* the upstream status code and body text of an answered call
UpstreamCode(c) == c.got[1].resp[1].StatusCode
UpstreamText(c) == c.got[1].resp[1].Body.text

\* C5: when the repository-info lookup fails, whatever the reason, the
\* answer is 500 with owner and repository set, branch, state and symbol
\* empty and error = "Failed to get repository info: " + the failure detail
\* (the transport's message for a transport failure, a text holding the
\* upstream status code for a non-200 status); no commit-status lookup is
\* made.
C5_RepoInfoFailure ==
    (RepoLookedUp /\ ~last.calls[1].err.nil) =>
        LET c == last.calls[1]
            error == "Failed to get repository info: " \o c.err.msg
        IN  /\ last.w.code = 500
            /\ OneJSON(last.w.written,
                       Object6(last.req.owner, last.req.repo, "", "", "", error))
            /\ last.req.owner # "" /\ last.req.repo # ""
            /\ WriterWorks => last.w.body = last.w.written
            /\ Len(last.calls) = 1
            /\ TransportCalls <= 1
            /\ (c.got # <<>> /\ ~c.got[1].err.nil) => c.err.msg = c.got[1].err.msg
            /\ (Answered(c) /\ UpstreamCode(c) # 200) =>
                   Contains(error, CodeText(UpstreamCode(c)))
            /\ (Answered(c) /\ UpstreamCode(c) = 200) =>
                   c.got[1].resp[1].Body.syntaxErr # ""
                   \/ c.got[1].resp[1].Body.obj["default_branch"].t # "string"

\* C5 witness: the upstream answered the repository-info request 401 and the
\* caller got a 500 whose error names 401
C5_Witness ==
    /\ RepoLookedUp
    /\ Answered(last.calls[1])
    /\ UpstreamCode(last.calls[1]) = 401
    /\ last.w.code = 500
    /\ last.w.body # <<>>
    /\ Contains(last.w.body[1].json["error"], "401")
    /\ last.w.body[1].json["branch"] = ""

\* C6: when the repository-info lookup succeeds and the commit-status lookup
\* fails, the answer is 500 with owner, repository and the resolved branch
\* set, state and symbol empty and error = "Failed to get commit status: " +
\* the failure detail.
C6_CommitStatusFailure ==
    (StatusLookedUp /\ last.calls[1].err.nil /\ ~last.calls[2].err.nil) =>
        LET c == last.calls[2]
            error == "Failed to get commit status: " \o c.err.msg
        IN  /\ last.w.code = 500
            /\ OneJSON(last.w.written,
                       Object6(last.req.owner, last.req.repo, last.calls[1].branch,
                               "", "", error))
            /\ WriterWorks => last.w.body = last.w.written
            /\ (c.got # <<>> /\ ~c.got[1].err.nil) => c.err.msg = c.got[1].err.msg
            /\ Answered(c) => UpstreamCode(c) # 404
            /\ (Answered(c) /\ UpstreamCode(c) # 200) =>
                   Contains(error, CodeText(UpstreamCode(c)))

\* C6 witness: branch "main" was resolved, the status endpoint answered 500,
\* and the caller got a 500 that carries the branch
C6_Witness ==
    /\ StatusLookedUp
    /\ last.calls[1].err.nil
    /\ Answered(last.calls[2])
    /\ UpstreamCode(last.calls[2]) = 500
    /\ last.w.code = 500
    /\ last.w.body # <<>>
    /\ last.w.body[1].json["branch"] = "main"
    /\ last.w.body[1].json["state"] = ""
    /\ HasPrefix(last.w.body[1].json["error"], "Failed to get commit status: ")

\* C7 (as claimed): with default branch "main" resolved and a 404 from the
\* commit-status endpoint, the caller receives status 204 together with the
\* body {owner, repository, branch "main", state "unknown", symbol U+25CB}
\* and no error member.
C7_UnknownDelivered ==
    (StatusLookedUp /\ WriterWorks
        /\ last.calls[1].err.nil /\ last.calls[1].branch = "main"
        /\ Answered(last.calls[2]) /\ UpstreamCode(last.calls[2]) = 404) =>
        /\ last.w.code = 204
        /\ OneJSON(last.w.body,
                   Object5(last.req.owner, last.req.repo, "main", "unknown", "U+25CB"))

\* C8: a 404 from the commit-status endpoint makes GetCommitStatus return a
\* status with state "unknown", no statuses and total count 0, and a nil
\* error, without reading or decoding the body of the 404.
C8_NotFoundIsUnknown ==
    (StatusLookedUp /\ Answered(last.calls[2]) /\ UpstreamCode(last.calls[2]) = 404) =>
        LET c == last.calls[2]
        IN  /\ c.op = "GetCommitStatus"
            /\ c.err.nil
            /\ c.status = <<[State |-> "unknown", Statuses |-> <<>>, TotalCount |-> 0]>>
            /\ c.read = "none"

\* C8 witness: a 404 whose body says "success" came back as "unknown"
C8_Witness ==
    /\ StatusLookedUp
    /\ Answered(last.calls[2])
    /\ UpstreamCode(last.calls[2]) = 404
    /\ UpstreamText(last.calls[2]) = "{\"state\": \"success\"}"
    /\ last.calls[2].err.nil
    /\ last.calls[2].status[1].State = "unknown"

\* C9: for every upstream status other than 200 (404 and 401 included)
\* GetDefaultBranch returns an empty branch and an error that carries the
\* status code and the body text; hence a handler that goes on to the
\* commit-status lookup had a 200.
C9_RepoInfoNon200 ==
    /\ (RepoLookedUp /\ Answered(last.calls[1]) /\ UpstreamCode(last.calls[1]) # 200) =>
        LET c == last.calls[1]
        IN  /\ c.op = "GetDefaultBranch"
            /\ ~c.err.nil
            /\ Contains(c.err.msg, CodeText(UpstreamCode(c)))
            /\ Contains(c.err.msg, UpstreamText(c))
            /\ c.branch = ""
            /\ c.status = <<>>
    /\ \A r \in Reqs :
        pc[r] = "GetCommitStatus" =>
            /\ Len(calls[r]) = 1
            /\ Answered(calls[r][1])
            /\ UpstreamCode(calls[r][1]) = 200

\* C9 witness: a 401 with a well-formed repository body was turned into an
\* error
C9_Witness ==
    /\ RepoLookedUp
    /\ Answered(last.calls[1])
    /\ UpstreamCode(last.calls[1]) = 401
    /\ UpstreamText(last.calls[1]) = "{\"default_branch\": \"main\"}"
    /\ ~last.calls[1].err.nil
    /\ last.calls[1].branch = ""

\* C10: for every upstream status outside {200, 404} GetCommitStatus returns
\* no status and an error that carries the status code and the body text.
C10_CommitStatusOtherCodes ==
    (StatusLookedUp /\ Answered(last.calls[2])
        /\ UpstreamCode(last.calls[2]) \notin {200, 404}) =>
        LET c == last.calls[2]
        IN  /\ c.op = "GetCommitStatus"
            /\ ~c.err.nil
            /\ Contains(c.err.msg, CodeText(UpstreamCode(c)))
            /\ Contains(c.err.msg, UpstreamText(c))
            /\ c.status = <<>>

\* C10 witness: a 204 with a well-formed status body was turned into an error
C10_Witness ==
    /\ StatusLookedUp
    /\ Answered(last.calls[2])
    /\ UpstreamCode(last.calls[2]) = 204
    /\ UpstreamText(last.calls[2]) = "{\"state\": \"success\"}"
    /\ ~last.calls[2].err.nil
    /\ last.calls[2].status = <<>>

\* the upstream-client calls of the exchange the latest step completed
LastCalls == { last.calls[i] : i \in 1..Len(last.calls) }

\* the transport reported a failure to call c
TransportFailed(c) == c.got # <<>> /\ ~c.got[1].err.nil

\* C11: when the transport reports a failure, GetDefaultBranch and
\* GetCommitStatus alike return an error with the transport's own message
\* and no branch or status, and the handler answers 500.
C11_TransportFailure ==
    \A c \in LastCalls :
        TransportFailed(c) =>
            /\ ~c.err.nil
            /\ c.err.msg = c.got[1].err.msg
            /\ c.err.msg \in TransportErrors
            /\ c.branch = ""
            /\ c.status = <<>>
            /\ last.w.code = 500

\* C11 witness: the transport failed in each of the two operations (here the
\* second, after a successful first) and the caller got a 500
C11_Witness ==
    /\ StatusLookedUp
    /\ last.calls[1].err.nil
    /\ TransportFailed(last.calls[2])
    /\ last.calls[2].err.msg = "network error"
    /\ last.w.code = 500

\* a member of body b that is present with another JSON type than t
WrongType(b, member, t) == member \in DOMAIN b.obj /\ b.obj[member].t # t

\* the body does not decode into a RepositoryInfo / a CommitStatusResult
RepoBodyIllShaped(b) ==
    b.syntaxErr # "" \/ WrongType(b, "default_branch", "string")

StatusBodyIllShaped(b) ==
    \/ b.syntaxErr # ""
    \/ WrongType(b, "state", "string")
    \/ WrongType(b, "statuses", "array")
    \/ WrongType(b, "total_count", "number")

\* C12: a 200 whose body does not decode into the expected shape makes
\* GetDefaultBranch, respectively GetCommitStatus, return the decoder's
\* error and no branch or status, and the handler answers 500.
C12_DecodeFailure ==
    \A c \in LastCalls :
        LET b == c.got[1].resp[1].Body
            illShaped == IF c.op = "GetDefaultBranch" THEN RepoBodyIllShaped(b)
                         ELSE StatusBodyIllShaped(b)
        IN  (Answered(c) /\ UpstreamCode(c) = 200 /\ illShaped) =>
                /\ ~c.err.nil
                /\ IF b.syntaxErr # "" THEN c.err.msg = b.syntaxErr
                   ELSE HasPrefix(c.err.msg, "json: cannot unmarshal ")
                /\ c.branch = ""
                /\ c.status = <<>>
                /\ c.read = "Decode"
                /\ last.w.code = 500

\* C12 witness: both operations met such a body; here the commit-status body
\* has a total_count of the wrong type and the caller got a 500
C12_Witness ==
    /\ StatusLookedUp
    /\ Answered(last.calls[2])
    /\ UpstreamCode(last.calls[2]) = 200
    /\ UpstreamText(last.calls[2]) = "{\"total_count\": \"many\"}"
    /\ ~last.calls[2].err.nil
    /\ last.w.code = 500

\* the response went out with this Content-Type: the header was in the map
\* when the status was written
SentContentType(ct) ==
    /\ "Content-Type" \in DOMAIN last.w.sent
    /\ last.w.sent["Content-Type"] = ct

\* C13: every answer of /status on the validation-failure, lookup-failure and
\* success branches (every answer to a GET) goes out with Content-Type
\* application/json, the header being set before the status is written.
C13_ContentTypeJSON ==
    (StatusServed /\ last.req.method = "GET") =>
        /\ SentContentType("application/json")
        /\ last.w.code \in {400, 500} \cup { TableCode(s) : s \in UpstreamStates }

\* C13 witness: a 500 after a failed repository-info lookup went out as JSON
C13_Witness ==
    /\ RepoLookedUp
    /\ ~last.calls[1].err.nil
    /\ last.w.code = 500
    /\ SentContentType("application/json")

\* the status codes section 6 allows a GET /status to answer with
AllowedStatusCodes == {200, 202, 204, 400, 417, 500}

\* C14: whatever the upstream does, a GET /status is answered with one of
\* 200, 202, 204, 400, 417, 500 and any other method with 405; an upstream
\* status code outside that set never becomes the response code.
C14_ResponseCodes ==
    StatusServed =>
        /\ IF last.req.method = "GET" THEN last.w.code \in AllowedStatusCodes
           ELSE last.w.code = 405
        /\ \A c \in LastCalls :
               (Answered(c) /\ UpstreamCode(c) \notin AllowedStatusCodes) =>
                   last.w.code # UpstreamCode(c)

\* C14 witness: the upstream answered 401 and the caller got 500
C14_Witness ==
    /\ RepoLookedUp
    /\ Answered(last.calls[1])
    /\ UpstreamCode(last.calls[1]) = 401
    /\ last.req.method = "GET"
    /\ last.w.code = 500

\* the latest step answered a GET /status, hence with one BuildStatusResult
ResultServed == StatusServed /\ last.req.method = "GET"

\* the members of that BuildStatusResult, as the handler encoded them
Result == last.w.written[1].json

\* it has an error member, and that is not empty
ErrorSet == "error" \in DOMAIN Result /\ Result["error"] # ""

\* shape (a) of section 3: everything populated, no error
FullyPopulated ==
    /\ "error" \notin DOMAIN Result
    /\ \A k \in {"owner", "repository", "branch", "state", "symbol"} : Result[k] # ""

\* shape (b) of section 3: the error is set and the members of the stages
\* after the failing one (validation, repository info, commit status) are
\* empty
PartialWithError ==
    /\ ErrorSet
    /\ Result["state"] = ""
    /\ Result["symbol"] = ""
    /\ Len(last.calls) <= 1 => Result["branch"] = ""
    /\ last.calls = <<>> => (Result["owner"] = "" /\ Result["repository"] = "")

\* shape (a) as the code has it: no error, owner, repository and symbol
\* populated, branch and state whatever the two lookups returned
SuccessAsReturned ==
    /\ "error" \notin DOMAIN Result
    /\ Result["owner"] # "" /\ Result["repository"] # "" /\ Result["symbol"] # ""
    /\ BothLookupsOK
    /\ Result["branch"] = last.calls[1].branch
    /\ Result["state"] = last.calls[2].status[1].State

\* C15 (as claimed): every BuildStatusResult is either fully populated
\* without error or has its error set and the later members empty, and never
\* both.
C15_ExactlyOneShape ==
    ResultServed =>
        /\ Len(last.w.written) = 1
        /\ FullyPopulated # PartialWithError

\* C15 (amended): every BuildStatusResult is either a success without error
\* member, with owner, repository and symbol populated and branch and state
\* as the lookups returned them (each possibly empty), or has its error set
\* and the later members empty, and never both.
C15_ExactlyOneShapeAmended ==
    ResultServed =>
        /\ Len(last.w.written) = 1
        /\ SuccessAsReturned # PartialWithError
        /\ FullyPopulated => SuccessAsReturned

\* C15 witness: a success whose branch is empty, the repository body having
\* no default_branch member
C15_Witness ==
    /\ ResultServed
    /\ BothLookupsOK
    /\ "error" \notin DOMAIN Result
    /\ Result["branch"] = ""
    /\ Result["state"] = "success"
    /\ Result["symbol"] = "U+2713"

\* the state member of the upstream commit-status body of call c, "" when
\* the body has none
UpstreamState(c) ==
    LET o == c.got[1].resp[1].Body.obj
    IN  IF "state" \in DOMAIN o THEN o["state"].s ELSE ""

\* C16: the state of every BuildStatusResult is empty in an error response,
\* the synthesized "unknown" after an upstream 404, and otherwise exactly
\* the state string of this request's upstream commit-status body, never
\* rewritten.
C16_StateProvenance ==
    ResultServed =>
        IF ErrorSet THEN Result["state"] = ""
        ELSE /\ StatusLookedUp
             /\ Answered(last.calls[2])
             /\ UpstreamCode(last.calls[2]) \in {200, 404}
             /\ IF UpstreamCode(last.calls[2]) = 404
                THEN Result["state"] = "unknown"
                ELSE Result["state"] = UpstreamState(last.calls[2])

\* C16 witness: the upstream's "Success" was reported as it came, although
\* the mapper does not know it
C16_Witness ==
    /\ ResultServed
    /\ ~ErrorSet
    /\ UpstreamCode(last.calls[2]) = 200
    /\ UpstreamState(last.calls[2]) = "Success"
    /\ Result["state"] = "Success"
    /\ Result["symbol"] = "?"

\* the URLs of the two upstream endpoints
RepoURL(owner, repo) == service.BaseURL \o "/api/v1/repos/" \o owner \o "/" \o repo
StatusURL(owner, repo, br) == RepoURL(owner, repo) \o "/commits/" \o br \o "/status"

\* C17: within one request the two upstream calls are sequential: while the
\* repository-info request is at the transport no call has returned and
\* nothing else is in flight; the commit-status request is at the transport
\* only after the repository-info call returned without error, alone, and
\* its URL names the branch that call returned for the same owner and repo.
C17_Sequential ==
    /\ \A r \in Reqs :
        /\ Len(pending[r]) <= 1
        /\ pc[r] = "GetDefaultBranch" =>
              /\ calls[r] = <<>>
              /\ pending[r][1].URL = RepoURL(req[r].owner, req[r].repo)
        /\ pc[r] = "GetCommitStatus" =>
              /\ Len(calls[r]) = 1
              /\ calls[r][1].op = "GetDefaultBranch"
              /\ Answered(calls[r][1])
              /\ calls[r][1].err.nil
              /\ calls[r][1].sent = <<[pending[r][1] EXCEPT
                                         !.URL = RepoURL(req[r].owner, req[r].repo)]>>
              /\ pending[r][1].URL =
                    StatusURL(req[r].owner, req[r].repo, calls[r][1].branch)
    /\ StatusLookedUp =>
        /\ last.calls[1].op = "GetDefaultBranch"
        /\ last.calls[1].err.nil
        /\ last.calls[2].op = "GetCommitStatus"
        /\ \A i \in 1..Len(last.calls[2].sent) :
               last.calls[2].sent[i].URL =
                   StatusURL(last.req.owner, last.req.repo, last.calls[1].branch)

\* C17 witness: the repository-info call returned "develop" and the request
\* for the status of develop is at the transport
C17_Witness ==
    \E r \in Reqs :
        /\ pc[r] = "GetCommitStatus"
        /\ calls[r][1].branch = "develop"
        /\ pending[r][1].URL = "https://git.example.com/api/v1/repos/acme/widget/commits/develop/status"

\* the URL cannot be made into a request (it holds a control character)
Unbuildable(url) == Contains(url, "\t")

\* the latest /status exchange was refused before any lookup (405 or 400)
Refused == StatusServed /\ last.w.code \in {StatusMethodNotAllowed, StatusBadRequest}

\* ... or its repository-info lookup failed
RepoLookupFailed == RepoLookedUp /\ ~last.calls[1].err.nil

\* C18 (as claimed): one /status request causes exactly 0 transport calls on
\* the 405 and 400 branches, exactly 1 when the repository-info lookup
\* fails, and exactly 2 otherwise.
C18_CallCounts ==
    StatusServed =>
        TransportCalls = IF Refused THEN 0
                         ELSE IF RepoLookupFailed THEN 1
                         ELSE 2

\* C18 (amended): no step is retried and the first failure ends the request.
\* Each lookup hands at most one request to the transport, and none exactly
\* when its URL cannot be made into a request; so a /status request causes 0
\* transport calls on the 405 and 400 branches, at most 1 when the
\* repository-info lookup fails (0 if its request could not be built), and
\* otherwise 1 for the repository info plus at most 1 for the commit status
\* (0 if that request could not be built); a failed repository-info lookup
\* is the last lookup of its request.
C18_NoRetry ==
    StatusServed =>
        /\ \A i \in 1..Len(last.calls) :
              /\ Len(last.calls[i].sent) <= 1
              /\ Len(last.calls[i].got) = Len(last.calls[i].sent)
        /\ Refused => last.calls = <<>> /\ TransportCalls = 0
        /\ ~Refused => RepoLookedUp
        /\ RepoLookupFailed =>
              /\ Len(last.calls) = 1
              /\ TransportCalls =
                    IF Unbuildable(RepoURL(last.req.owner, last.req.repo)) THEN 0 ELSE 1
        /\ (RepoLookedUp /\ ~RepoLookupFailed) =>
              /\ Len(last.calls) = 2
              /\ Len(last.calls[1].sent) = 1
              /\ TransportCalls =
                    IF Unbuildable(StatusURL(last.req.owner, last.req.repo,
                                             last.calls[1].branch))
                    THEN 1 ELSE 2

\* C18 witness: the repository-info lookup failed without the transport
\* having been called, the base URL holding a control character
C18_Witness ==
    /\ RepoLookupFailed
    /\ Unbuildable(service.BaseURL)
    /\ TransportCalls = 0
    /\ last.w.code = StatusInternalServerError

\* the calls that have returned: those of the exchange just answered and
\* those of the requests still being handled
ReturnedCalls ==
    LastCalls \cup UNION { { calls[r][i] : i \in 1..Len(calls[r]) } : r \in Reqs }

\* the Close of the body the transport handed to call c fails
CloseFails(c) == Answered(c) /\ c.got[1].resp[1].closeFails

\* what the operation of call c returns for the same response with a body
\* whose Close succeeds
WithQuietClose(c, owner, repo, br) ==
    LET resp == c.got[1].resp[1]
        quiet == DoOK(Response(resp.StatusCode, resp.Body, FALSE))
    IN  IF c.op = "GetDefaultBranch"
        THEN GetDefaultBranch(service, owner, repo, quiet)
        ELSE GetCommitStatus(service, owner, repo, br, quiet)

\* C19: a call the transport answered with a response has closed that
\* response's body once when it returns, on every exit path; a call the
\* transport failed, or never reached, has closed nothing; and when the
\* Close fails the call returns the branch, status and error it returns for
\* the same response with a Close that succeeds: a 404 of the status
\* endpoint is still "unknown", another non-200 still the error carrying the
\* status code, a 200 still the decoded value or the decode error.
C19_BodyClosed ==
    /\ \A c \in ReturnedCalls : c.closed = IF Answered(c) THEN 1 ELSE 0
    /\ \A i \in 1..Len(last.calls) :
          LET c == last.calls[i]
              code == UpstreamCode(c)
              same == WithQuietClose(c, last.req.owner, last.req.repo, last.branch)
          IN  CloseFails(c) =>
                /\ c.branch = same.branch
                /\ c.status = same.status
                /\ c.err = same.err
                /\ (c.op = "GetCommitStatus" /\ code = StatusNotFound) =>
                       c.err.nil /\ c.status[1].State = "unknown"
                /\ (code # StatusOK /\ ~(c.op = "GetCommitStatus" /\ code = StatusNotFound)) =>
                       ~c.err.nil /\ Contains(c.err.msg, CodeText(code))
                /\ (code = StatusOK /\ c.got[1].resp[1].Body.syntaxErr # "") =>
                       c.err.msg = c.got[1].resp[1].Body.syntaxErr
                /\ (code = StatusOK /\ c.got[1].resp[1].Body.syntaxErr = "") => c.err.nil

\* C19 witness: both lookups were answered with bodies whose Close fails,
\* the first a 200 that decoded to "main", the second a 404; both bodies
\* were closed and the request was answered 204
C19_Witness ==
    /\ BothLookupsOK
    /\ CloseFails(last.calls[1]) /\ last.calls[1].closed = 1
    /\ last.calls[1].branch = "main"
    /\ CloseFails(last.calls[2]) /\ last.calls[2].closed = 1
    /\ UpstreamCode(last.calls[2]) = StatusNotFound
    /\ last.w.code = StatusNoContent

\* the latest step answered a /health request
HealthServed == last.served /\ last.req.path = "/health"

\* C20: every /health answer is HTTP 200 with Content-Type application/json
\* and the one body {"status":"ok"}, made without any upstream call,
\* whatever the method and the configured upstream are and whatever the
\* /status requests in flight are waiting for.
C20_Health ==
    HealthServed =>
        /\ last.w.code = StatusOK
        /\ SentContentType("application/json")
        /\ OneJSON(last.w.written, "status" :> "ok")
        /\ WriterWorks => last.w.body = last.w.written
        /\ last.calls = <<>>
        /\ TransportCalls = 0

\* C20 witness: /health was answered 200 with its body while a /status
\* request was waiting for the upstream's answer
C20_Witness ==
    /\ HealthServed
    /\ last.w.kind = "server"
    /\ last.w.code = StatusOK
    /\ last.w.body = <<JSONChunk("status" :> "ok")>>
    /\ \E r \in Reqs : pc[r] = "GetCommitStatus"

\* what the transport answered call c, a failure when it was never asked
Outcome(c) == IF c.got = <<>> THEN DoFail("") ELSE c.got[1]

\* statusHandler run alone under the configuration g for request rq on a
\* fresh writer, the transport answering its calls with do1 and do2: the
\* exchange its caller sees
AloneUnder(g, rq, kind, do1, do2) ==
    LET wr == NewWriter(kind)
        res1 == GetDefaultBranch(g, rq.owner, rq.repo, do1)
        res2 == GetCommitStatus(g, rq.owner, rq.repo, res1.branch, do2)
    IN  IF admit(rq.method, rq.owner, rq.repo) = "MethodNotAllowed"
        THEN Exchange(rq, respondMethodNotAllowed(wr), "", <<>>)
        ELSE IF admit(rq.method, rq.owner, rq.repo) = "BadRequest"
        THEN Exchange(rq, respondBadRequest(wr), "", <<>>)
        ELSE IF ~res1.err.nil
        THEN Exchange(rq, respondRepoInfoError(wr, rq.owner, rq.repo, res1.err), "",
                      <<res1>>)
        ELSE IF ~res2.err.nil
        THEN Exchange(rq, respondCommitStatusError(wr, rq.owner, rq.repo, res1.branch,
                                                   res2.err),
                      res1.branch, <<res1, res2>>)
        ELSE Exchange(rq, respondStatus(wr, rq.owner, rq.repo, res1.branch,
                                        res2.status[1]),
                      res1.branch, <<res1, res2>>)

\* ... under the configured service
Alone(rq, kind, do1, do2) == AloneUnder(service, rq, kind, do1, do2)

\* C21: whatever other /status requests are in flight, the answer to a
\* request is the one statusHandler gives when run alone on that request's
\* owner and repo with the transport outcomes of that request's own calls
\* under the configured service; a request waiting for the commit status
\* holds the branch its own repository-info call returned and asks for that
\* branch of its own owner and repo; and the requests of both calls are
\* built from the one configuration, which no step changes.
C21_Independent ==
    /\ StatusServed =>
          last = Alone(last.req, last.w.kind,
                       IF Len(last.calls) >= 1 THEN Outcome(last.calls[1]) ELSE DoFail(""),
                       IF Len(last.calls) >= 2 THEN Outcome(last.calls[2]) ELSE DoFail(""))
    /\ \A r \in DOMAIN pc :
          /\ pc[r] = "GetDefaultBranch" =>
                /\ calls[r] = <<>>
                /\ pending[r] = DefaultBranchRequest(service, req[r].owner, req[r].repo).req
          /\ pc[r] = "GetCommitStatus" =>
                /\ calls[r] = <<GetDefaultBranch(service, req[r].owner, req[r].repo,
                                                 Outcome(calls[r][1]))>>
                /\ branch[r] = calls[r][1].branch
                /\ pending[r] = CommitStatusRequest(service, req[r].owner, req[r].repo,
                                                    branch[r]).req
          /\ pc[r] = "idle" =>
                /\ req[r] = NoRequest /\ branch[r] = "" /\ calls[r] = <<>>
                /\ pending[r] = <<>>

\* C21 witness: acme's request was answered for branch main while globex's
\* request, resolved to develop, was waiting for its commit status
C21_Witness ==
    /\ BothLookupsOK
    /\ last.req.owner = "acme" /\ last.branch = "main"
    /\ last.w.written[1].json["branch"] = "main"
    /\ \E r \in DOMAIN pc :
          /\ pc[r] = "GetCommitStatus"
          /\ req[r].owner = "globex"
          /\ branch[r] = "develop"

\* the step answers the /status request slot r was handling: its caller has
\* one status, written by the one WriteHeader call of the branch taken, and
\* the one body the handler encoded (delivered or not)
AnswersSlot(r) ==
    /\ pc[r] # "idle" /\ pc'[r] = "idle"
    /\ last'.served
    /\ last'.req = req[r]
    /\ last'.w.code \in AllowedStatusCodes
    /\ last'.w.superfluous = 0
    /\ Len(last'.w.written) = 1

\* C22: if the transport answers every call, every /status request that
\* waits for the upstream is eventually answered; a request leaves its slot
\* only by being answered with exactly one status; a request answered
\* without waiting (405, 400, a request that cannot be built) has exactly one
\* status too; a failed Write changes none of this; and a slot that answered
\* is free for the next request.
C22_Completes ==
    /\ \A r \in Reqs : (pc[r] # "idle") ~> (pc[r] = "idle")
    /\ [][\A r \in Reqs : (pc[r] # "idle" /\ pc'[r] = "idle") => AnswersSlot(r)]_vars
    /\ [](StatusServed =>
            /\ last.w.code \in AllowedStatusCodes \cup {StatusMethodNotAllowed}
            /\ last.w.superfluous = 0
            /\ Len(last.w.written) = 1)

\* C22 witness: both lookups were answered, the Write of the body failed,
\* and the request was answered 200 all the same, leaving every slot free
C22_Witness ==
    /\ BothLookupsOK
    /\ last.w.kind = "failing"
    /\ last.w.writeErr
    /\ last.w.body = <<>>
    /\ last.w.code = StatusOK
    /\ \A r \in Reqs : pc[r] = "idle"

\* the request the upstream client is to hand to the transport for a call
\* of operation op made for owner, repo and (commit status only) br
Expected(op, owner, repo, br) ==
    [Method |-> "GET",
     URL |-> IF op = "GetDefaultBranch" THEN RepoURL(owner, repo)
             ELSE StatusURL(owner, repo, br),
     Authorization |-> "token " \o service.Token]

\* C23: every request at the transport, and every request a returned call
\* handed to it, is a GET with Authorization "token " + the configured
\* credential, for {base}/api/v1/repos/{owner}/{repo} in the repository-info
\* call and {base}/api/v1/repos/{owner}/{repo}/commits/{branch}/status in the
\* commit-status call, owner and repo being the inbound request's and branch
\* the one the repository-info call returned.
C23_OutboundRequests ==
    /\ \A r \in Reqs :
          /\ pc[r] = "GetDefaultBranch" =>
                pending[r] = <<Expected("GetDefaultBranch", req[r].owner, req[r].repo, "")>>
          /\ pc[r] = "GetCommitStatus" =>
                /\ pending[r] = <<Expected("GetCommitStatus", req[r].owner, req[r].repo,
                                           calls[r][1].branch)>>
                /\ calls[r][1].sent =
                      <<Expected("GetDefaultBranch", req[r].owner, req[r].repo, "")>>
    /\ \A i \in 1..Len(last.calls) :
          \A k \in 1..Len(last.calls[i].sent) :
              last.calls[i].sent[k] =
                  Expected(IF i = 1 THEN "GetDefaultBranch" ELSE "GetCommitStatus",
                           last.req.owner, last.req.repo, last.calls[1].branch)

\* C23 witness: with the credential s3cr3t configured, the commit-status
\* request of an answered exchange went out for the branch develop with
\* Authorization "token s3cr3t"
C23_Witness ==
    /\ StatusLookedUp
    /\ service.Token = "s3cr3t"
    /\ last.calls[1].sent[1].Authorization = "token s3cr3t"
    /\ last.calls[2].sent =
          <<[Method |-> "GET",
             URL |-> "https://git.example.com/api/v1/repos/acme/widget/commits/develop/status",
             Authorization |-> "token s3cr3t"]>>

\* the latest /status exchange ended in an error: the method or the
\* parameters were refused or a lookup failed
ErrorOutcome == StatusServed /\ ~BothLookupsOK

\* the written body is one JSON object with a non-empty error member whose
\* owner, repository and branch are empty or those of this request
StructuredError ==
    /\ Len(last.w.written) = 1
    /\ DOMAIN Result = {"owner", "repository", "branch", "state", "symbol", "error"}
    /\ Result["error"] # ""
    /\ Result["owner"] \in {"", last.req.owner}
    /\ Result["repository"] \in {"", last.req.repo}
    /\ Result["branch"] \in {"", last.branch}

\* C24 (as claimed): every error outcome of /status is a structured JSON
\* body with the owner, repository and branch resolved so far and a
\* non-empty error string.
C24_ErrorsAreJSON == ErrorOutcome => StructuredError

\* C24 (amended): every error outcome of a GET /status is a JSON body of
\* content type application/json with a non-empty error string, empty state
\* and symbol, and: nothing else after a validation failure (a supplied
\* owner or repo is not echoed); owner and repository after a failed
\* repository-info lookup; owner, repository and the resolved branch after
\* a failed commit-status lookup.  The body reaches the caller unless the
\* writer fails.  The 405 of any other method is the plain text
\* "Method not allowed", not JSON.
C24_ErrorBodies ==
    ErrorOutcome =>
        IF last.req.method # "GET"
        THEN /\ last.w.code = StatusMethodNotAllowed
             /\ last.w.written = <<TextChunk("Method not allowed\n")>>
             /\ ~SentContentType("application/json")
        ELSE /\ SentContentType("application/json")
             /\ StructuredError
             /\ Result["state"] = "" /\ Result["symbol"] = ""
             /\ Result["owner"] = IF last.calls = <<>> THEN "" ELSE last.req.owner
             /\ Result["repository"] = IF last.calls = <<>> THEN "" ELSE last.req.repo
             /\ Result["branch"] = IF Len(last.calls) = 2 THEN last.calls[1].branch ELSE ""
             /\ last.w.code = IF last.calls = <<>> THEN StatusBadRequest
                              ELSE StatusInternalServerError
             /\ WriterWorks => last.w.body = last.w.written

\* C24 witness: a POST was answered 405 with the plain text, delivered by
\* the server's writer
C24_Witness ==
    /\ ErrorOutcome
    /\ last.req.method = "POST"
    /\ last.req.owner = "acme" /\ last.req.repo = "widget"
    /\ last.w.kind = "server"
    /\ last.w.code = StatusMethodNotAllowed
    /\ last.w.body = <<TextChunk("Method not allowed\n")>>

\* the six states the mapper's table names
NamedStates == {"success", "failure", "error", "pending", "warning", "unknown"}

ResponseStrings(wr) ==
    { wr.sent[k] : k \in DOMAIN wr.sent }
    \cup UNION { { wr.written[i].json[k] : k \in DOMAIN wr.written[i].json }
                 \cup { wr.written[i].text } : i \in 1..Len(wr.written) }

\* the response of an exchange as its caller can observe it
Observable(x) == [code |-> x.w.code, header |-> x.w.sent, body |-> x.w.body,
                  written |-> x.w.written]

\* the exchange that was served, had the service been configured with
\* token t and the transport answered the same
UnderToken(t) ==
    AloneUnder([service EXCEPT !.Token = t], last.req, last.w.kind,
               IF Len(last.calls) >= 1 THEN Outcome(last.calls[1]) ELSE DoFail(""),
               IF Len(last.calls) >= 2 THEN Outcome(last.calls[2]) ELSE DoFail(""))

\* C26: the response to a /status request does not depend on the configured
\* token: configured with any other token and given the same transport
\* outcomes, the handler makes the same calls with the same results up to the
\* Authorization header and answers with the same status code, headers and
\* body; and the token occurs in no string of the response, error strings
\* included (the upstream's own bodies and the transport's messages do not
\* contain it).
C26_TokenHidden ==
    StatusServed =>
        /\ \A t \in Tokens :
              /\ Observable(UnderToken(t)) = Observable(last)
              /\ Len(UnderToken(t).calls) = Len(last.calls)
              /\ \A i \in 1..Len(last.calls) :
                    /\ UnderToken(t).calls[i].err = last.calls[i].err
                    /\ UnderToken(t).calls[i].branch = last.calls[i].branch
                    /\ UnderToken(t).calls[i].status = last.calls[i].status
        /\ \A str \in ResponseStrings(last.w) : ~Contains(str, service.Token)

\* C26 witness: configured with the token "s3cr3t", the service was refused
\* by the repository-info endpoint with 401 and answered 500 with an error
\* that quotes the upstream's body, having sent the token upstream
C26_Witness ==
    /\ RepoLookedUp
    /\ service.Token = "s3cr3t"
    /\ last.calls[1].sent # <<>>
    /\ last.calls[1].sent[1].Authorization = "token s3cr3t"
    /\ last.calls[1].got # <<>>
    /\ last.calls[1].got[1].err.nil
    /\ UpstreamCode(last.calls[1]) = 401
    /\ last.w.code = StatusInternalServerError
    /\ ErrorSet
    /\ Contains(Result["error"], "401 - ")

\* the repository-info endpoint answered the served exchange, with a status
\* other than 200
RepoInfoRefused ==
    /\ RepoLookedUp
    /\ last.calls[1].got # <<>>
    /\ last.calls[1].got[1].err.nil
    /\ UpstreamCode(last.calls[1]) # StatusOK

\* C27 (as claimed): when the repository-info endpoint answers with a status
\* N other than 200, the error string of the /status response is
\* "Failed to get repository info: " immediately followed by N.
C27_RepoInfoErrorText ==
    (RepoInfoRefused /\ last.req.method = "GET") =>
        /\ ErrorSet
        /\ HasPrefix(Result["error"],
                     "Failed to get repository info: "
                         \o Itoa(UpstreamCode(last.calls[1])))

\* call c of an exchange was answered 200 with a well-formed JSON object in
\* which every member named in types, if present, has the type given there
WellFormedOK(c, types) ==
    /\ c.got # <<>>
    /\ c.got[1].err.nil
    /\ UpstreamCode(c) = StatusOK
    /\ c.got[1].resp[1].Body.syntaxErr = ""
    /\ \A k \in DOMAIN types \cap DOMAIN c.got[1].resp[1].Body.obj :
          c.got[1].resp[1].Body.obj[k].t = types[k]

\* the members of the body that answered call c
Members(c) == c.got[1].resp[1].Body.obj

RepositoryTypes == "default_branch" :> "string"
StatusResponseTypes ==
    ("state" :> "string") @@ ("statuses" :> "array") @@ ("total_count" :> "number")

\* C28: a 200 body that is a well-formed JSON object is decoded without an
\* error whether or not the expected members are there: GetCommitStatus
\* returns the state, statuses and total count that are present and "",
\* no statuses and 0 for the absent ones, GetDefaultBranch returns the
\* branch or "" when default_branch is absent; and after a repository-info
\* lookup that returned an empty branch without error the handler makes the
\* commit-status call for that empty branch (".../commits//status").
C28_MissingFields ==
    StatusServed =>
        /\ \A i \in 1..Len(last.calls) :
              /\ (last.calls[i].op = "GetDefaultBranch"
                      /\ WellFormedOK(last.calls[i], RepositoryTypes)) =>
                    /\ last.calls[i].err.nil
                    /\ last.calls[i].branch =
                           IF "default_branch" \in DOMAIN Members(last.calls[i])
                           THEN Members(last.calls[i])["default_branch"].s ELSE ""
              /\ (last.calls[i].op = "GetCommitStatus"
                      /\ WellFormedOK(last.calls[i], StatusResponseTypes)) =>
                    /\ last.calls[i].err.nil
                    /\ last.calls[i].status[1].State =
                           IF "state" \in DOMAIN Members(last.calls[i])
                           THEN Members(last.calls[i])["state"].s ELSE ""
                    /\ Len(last.calls[i].status[1].Statuses) =
                           IF "statuses" \in DOMAIN Members(last.calls[i])
                           THEN Members(last.calls[i])["statuses"].n ELSE 0
                    /\ last.calls[i].status[1].TotalCount =
                           IF "total_count" \in DOMAIN Members(last.calls[i])
                           THEN Members(last.calls[i])["total_count"].n ELSE 0
        /\ (RepoLookedUp /\ last.calls[1].err.nil /\ last.calls[1].branch = "") =>
              /\ Len(last.calls) = 2
              /\ last.calls[2].op = "GetCommitStatus"
              /\ Len(last.calls[2].sent) = 1
              /\ last.calls[2].sent[1].URL =
                     service.BaseURL \o "/api/v1/repos/" \o last.req.owner \o "/"
                         \o last.req.repo \o "/commits//status"

\* C28 witness: the repository-info body had no default_branch, the
\* commit-status call went out for the empty branch and was answered with a
\* body that has only a state; both lookups returned without error
C28_Witness ==
    /\ BothLookupsOK
    /\ WellFormedOK(last.calls[1], RepositoryTypes)
    /\ "default_branch" \notin DOMAIN Members(last.calls[1])
    /\ last.calls[1].branch = ""
    /\ Contains(last.calls[2].sent[1].URL, "/commits//status")
    /\ WellFormedOK(last.calls[2], StatusResponseTypes)
    /\ DOMAIN Members(last.calls[2]) = {"state"}
    /\ last.calls[2].status[1] = StatusResponse("success", <<>>, 0)

\* the URL call i of the served exchange is made for
CallURL(i) ==
    IF i = 1 THEN RepoURL(last.req.owner, last.req.repo)
    ELSE StatusURL(last.req.owner, last.req.repo, last.calls[1].branch)

\* C29: a call of GetDefaultBranch or GetCommitStatus whose URL, made of base
\* URL, owner, repo and branch, cannot be turned into a request returns
\* http.NewRequest's error without handing anything to the transport, so
\* that it gets, reads and closes no response; such calls are the only ones
\* that return with nothing sent; the /status request is then answered 500
\* without a further call, and a 400 is answered only when no call was made.
C29_RequestCreationError ==
    StatusServed =>
        /\ \A i \in 1..Len(last.calls) :
              /\ Unbuildable(CallURL(i)) <=> last.calls[i].sent = <<>>
              /\ Unbuildable(CallURL(i)) =>
                    /\ last.calls[i].err = NewRequest("GET", CallURL(i)).err
                    /\ ~last.calls[i].err.nil
                    /\ last.calls[i].got = <<>>
                    /\ last.calls[i].read = "none"
                    /\ last.calls[i].closed = 0
                    /\ Len(last.calls) = i
                    /\ last.w.code = StatusInternalServerError
                    /\ ErrorSet
        /\ last.w.code = StatusBadRequest => last.calls = <<>>

\* C29 witness: the repository-info lookup returned a branch name with a
\* control character; the commit-status call failed before the transport,
\* which saw the first request only, and the answer was 500
C29_Witness ==
    /\ StatusLookedUp
    /\ last.calls[1].err.nil
    /\ Unbuildable(last.calls[1].branch)
    /\ ~Unbuildable(service.BaseURL)
    /\ last.calls[2].sent = <<>>
    /\ last.calls[2].got = <<>>
    /\ last.calls[2].closed = 0
    /\ TransportCalls = 1
    /\ last.w.code = StatusInternalServerError
    /\ HasPrefix(Result["error"], "Failed to get commit status: parse ")

\* member k of a JSON object is there and not empty
NonEmpty(obj, k) == k \in DOMAIN obj /\ obj[k] # ""

\* C30: the JSON object statusHandler encodes for a /status request (every
\* request but the one answered 405), and every JSON object the caller
\* receives, has exactly one of error and symbol non-empty: the symbol is
\* non-empty exactly when both upstream lookups returned without error,
\* whatever the state they reported, and the error is non-empty exactly when
\* validation or a lookup failed.
C30_ErrorXorSymbol ==
    ResultServed =>
        /\ Len(last.w.written) = 1
        /\ NonEmpty(Result, "symbol") <=> ~NonEmpty(Result, "error")
        /\ NonEmpty(Result, "symbol") <=> BothLookupsOK
        /\ NonEmpty(Result, "error") <=>
              \/ last.calls = <<>>
              \/ \E i \in 1..Len(last.calls) : ~last.calls[i].err.nil
        /\ last.calls = <<>> <=> last.w.code = StatusBadRequest
        /\ \A i \in 1..Len(last.w.body) :
              /\ last.w.body[i] = last.w.written[i]
              /\ NonEmpty(last.w.body[i].json, "symbol")
                     <=> ~NonEmpty(last.w.body[i].json, "error")

\* C30 witness: both lookups succeeded and the upstream reported the state
\* "error": the caller received HTTP 500 with the symbol of that state and
\* no error member
C30_Witness ==
    /\ BothLookupsOK
    /\ last.w.code = StatusInternalServerError
    /\ Len(last.w.body) = 1
    /\ last.w.body[1].json["state"] = "error"
    /\ last.w.body[1].json["symbol"] = "U+2717"
    /\ "error" \notin DOMAIN last.w.body[1].json

====
